---- MODULE Spec2Model ----
(***************************************************************************)
(* pocketdb (src/src/lib.rs): a log-structured key-value store.            *)
(*                                                                         *)
(* Two files live on disk: the data file `file` (one JSON KeyVal per line) *)
(* and the index file `index_file` (one JSON KeyOffset per line).  A Db    *)
(* holds the two file handles, the HashMap `offset` and `last_offset`.     *)
(* Files are modelled byte by byte, a byte being a one-character string,   *)
(* so that offsets, overwrites and partial lines are what they are on the  *)
(* disk.  serde_json's text for a Vec<u8> is an array of decimal numbers.  *)
(***************************************************************************)
EXTENDS Integers, Sequences, FiniteSets, TLC

\* ------------------------------------------------------------------ bounds
\* puts that write, over the whole history of the path
MaxPuts == 3
\* stores opened over the whole history of the path
MaxSessions == 3

\* keys and values the callers use: the zero byte, a non-text byte, the
\* line-feed byte; encodings of different lengths
Keys == {<<0>>, <<255>>}
Vals == {<<10>>, <<0, 255>>}

\* ------------------------------------------------------------------ state
VARIABLES
  file,         \* bytes of the data file at `path`
  index_file,   \* bytes of the index file at `path`.idx
  file_pos,     \* cursor of the data file handle (Db.file)
  idx_pos,      \* cursor of the index file handle (Db.index_file)
  offset,       \* Db.offset: HashMap<Vec<u8>, u64>
  last_offset,  \* Db.last_offset
  proc,         \* "closed": no Db; "open": a Db exists; "panicked": the process aborted
  pc,           \* position inside put: "idle", "insert" (before line 104), "store_db" (before line 39)
  cur,          \* the KeyVal of the put in progress
  result,       \* what the last finished call returned to its caller
  written,      \* history: key -> value of the last put that returned, all sessions
  put_keys,     \* history: keys of the puts that wrote to the index file
  sess_keys,    \* history: keys whose put returned in the current session
  cut_keys,     \* history: keys whose latest put stopped between its two writes
  clean,        \* history: no put that wrote was cut short (by a panic or the process ending)
  sessions,     \* history: calls of open that returned a Db
  nputs         \* history: puts that wrote to the index file so far

vars == <<file, index_file, file_pos, idx_pos, offset, last_offset, proc, pc, cur,
          result, written, put_keys, sess_keys, cut_keys, clean, sessions,
          nputs>>

\* ------------------------------------------------------------------ bytes
END == <<"\n">>

Digits == <<"0", "1", "2", "3", "4", "5", "6", "7", "8", "9">>

DigitSet == {Digits[d] : d \in 1..10}

IsDigit(c) == c \in DigitSet

DigitVal(c) == (CHOOSE d \in 1..10 : Digits[d] = c) - 1

\* decimal text of an unsigned integer, as serde_json writes it
RECURSIVE DecStr(_)
DecStr(n) == IF n < 10 THEN <<Digits[n + 1]>>
             ELSE DecStr(n \div 10) \o <<Digits[(n % 10) + 1]>>

RECURSIVE JoinBytes(_, _)
JoinBytes(bs, i) ==
  IF i > Len(bs) THEN <<>>
  ELSE (IF i > 1 THEN <<",">> ELSE <<>>) \o DecStr(bs[i]) \o JoinBytes(bs, i + 1)

\* serde_json::to_string of a Vec<u8>: [b1,b2,...]
EncBytes(bs) == <<"[">> \o JoinBytes(bs, 1) \o <<"]">>

KeyTag == <<"{", "\"", "k", "e", "y", "\"", ":">>
ValTag == <<",", "\"", "v", "a", "l", "\"", ":">>
OffsetTag == <<",", "\"", "o", "f", "f", "s", "e", "t", "\"", ":">>

\* serde_json::to_string(&KeyVal): {"key":[..],"val":[..]}
to_string_KeyVal(kv) ==
  KeyTag \o EncBytes(kv.key) \o ValTag \o EncBytes(kv.val) \o <<"}">>

\* serde_json::to_string(&KeyOffset): {"key":[..],"offset":n}
to_string_KeyOffset(ko) ==
  KeyTag \o EncBytes(ko.key) \o OffsetTag \o DecStr(ko.offset) \o <<"}">>

\* ---------------------------------------------------------------- parsing
\* serde_json::from_str for the two structs.  The texts the parser is handed
\* are made of what to_string wrote: a whole line, a piece of one, or pieces
\* joined by an overwrite or a cut-short write.  On those the grammar below
\* (fields in declaration order, no blanks inside, blanks allowed after the
\* closing brace) accepts exactly what serde_json accepts.
HasPrefix(s, i, lit) ==
  /\ i >= 1
  /\ i + Len(lit) - 1 <= Len(s)
  /\ SubSeq(s, i, i + Len(lit) - 1) = lit

\* index of the first non-digit at or after i
RECURSIVE ScanDigits(_, _)
ScanDigits(s, i) ==
  IF i <= Len(s) /\ IsDigit(s[i]) THEN ScanDigits(s, i + 1) ELSE i

\* value of the digits s[i..j]
RECURSIVE NumVal(_, _, _)
NumVal(s, i, j) ==
  IF j < i THEN 0 ELSE NumVal(s, i, j - 1) * 10 + DigitVal(s[j])

\* a JSON unsigned integer at i: digits, no leading zero
ParseNum(s, i) ==
  LET j == ScanDigits(s, i)
      ok == j > i /\ (s[i] = "0" => j = i + 1)
  IN [ok |-> ok, val |-> IF ok THEN NumVal(s, i, j - 1) ELSE 0, next |-> j]

NoBytes == [ok |-> FALSE, val |-> <<>>, next |-> 0]

\* the elements of a non-empty array of u8, from the first element on
RECURSIVE ParseElems(_, _, _)
ParseElems(s, i, acc) ==
  LET n == ParseNum(s, i) IN
  IF ~n.ok \/ n.val > 255 THEN NoBytes
  ELSE IF HasPrefix(s, n.next, <<",">>)
       THEN ParseElems(s, n.next + 1, Append(acc, n.val))
  ELSE IF HasPrefix(s, n.next, <<"]">>)
       THEN [ok |-> TRUE, val |-> Append(acc, n.val), next |-> n.next + 1]
  ELSE NoBytes

\* a Vec<u8> at i
ParseBytes(s, i) ==
  IF ~HasPrefix(s, i, <<"[">>) THEN NoBytes
  ELSE IF HasPrefix(s, i + 1, <<"]">>)
       THEN [ok |-> TRUE, val |-> <<>>, next |-> i + 2]
  ELSE ParseElems(s, i + 1, <<>>)

\* only white space from i to the end
OnlyWs(s, i) == \A j \in i..Len(s) : s[j] = "\n"

NoKeyVal == [key |-> <<>>, val |-> <<>>]

\* serde_json::from_str::<KeyVal>
from_str_KeyVal(s) ==
  LET k == IF HasPrefix(s, 1, KeyTag)
           THEN ParseBytes(s, Len(KeyTag) + 1) ELSE NoBytes
      v == IF k.ok /\ HasPrefix(s, k.next, ValTag)
           THEN ParseBytes(s, k.next + Len(ValTag)) ELSE NoBytes
      ok == v.ok /\ HasPrefix(s, v.next, <<"}">>) /\ OnlyWs(s, v.next + 1)
  IN [ok |-> ok,
      kv |-> IF ok THEN [key |-> k.val, val |-> v.val] ELSE NoKeyVal]

NoKeyOffset == [key |-> <<>>, offset |-> 0]

\* serde_json::from_str::<KeyOffset>
from_str_KeyOffset(s) ==
  LET k == IF HasPrefix(s, 1, KeyTag)
           THEN ParseBytes(s, Len(KeyTag) + 1) ELSE NoBytes
      o == IF k.ok /\ HasPrefix(s, k.next, OffsetTag)
           THEN ParseNum(s, k.next + Len(OffsetTag))
           ELSE [ok |-> FALSE, val |-> 0, next |-> 0]
      ok == o.ok /\ HasPrefix(s, o.next, <<"}">>) /\ OnlyWs(s, o.next + 1)
  IN [ok |-> ok,
      ko |-> IF ok THEN [key |-> k.val, offset |-> o.val] ELSE NoKeyOffset]

\* ------------------------------------------------------------------ files
\* File::write at cursor pos: bytes from pos on are replaced, the file grows
\* when the write runs past its end; nothing is truncated
WriteAt(f, pos, bytes) ==
  SubSeq(f, 1, pos) \o bytes \o SubSeq(f, pos + Len(bytes) + 1, Len(f))

\* index of the line feed ending the line that holds byte i, or Len(f)
RECURSIVE LineEnd(_, _)
LineEnd(f, i) ==
  IF i >= Len(f) THEN Len(f)
  ELSE IF f[i] = "\n" THEN i ELSE LineEnd(f, i + 1)

\* seek(Start(pos)) then BufRead::read_line: the bytes from pos up to and
\* including the next line feed, or up to the end of the file
read_line(f, pos) ==
  IF pos >= Len(f) THEN <<>> ELSE SubSeq(f, pos + 1, LineEnd(f, pos + 1))

\* str::trim_end / trim_end_matches(END): trailing line feeds removed
RECURSIVE trim_end(_)
trim_end(s) ==
  IF Len(s) > 0 /\ s[Len(s)] = "\n" THEN trim_end(SubSeq(s, 1, Len(s) - 1))
  ELSE s

\* BufRead::lines from byte i on: the lines without their line feed; a last
\* line without a line feed is a line too
RECURSIVE lines(_, _)
lines(f, i) ==
  IF i > Len(f) THEN <<>>
  ELSE LET e == LineEnd(f, i)
           text == IF f[e] = "\n" THEN SubSeq(f, i, e - 1) ELSE SubSeq(f, i, e)
       IN <<text>> \o lines(f, e + 1)

\* --------------------------------------------------------------------- Db
KeyVal(key, val) == [key |-> key, val |-> val]

KeyOffset(key, off) == [key |-> key, offset |-> off]

\* HashMap::new()
EmptyMap == <<>>

\* HashMap::insert: an unconditional overwrite
insert(m, key, off) ==
  [x \in DOMAIN m \cup {key} |-> IF x = key THEN off ELSE m[x]]

\* the value open() gives Db.last_offset
InitialLastOffset == 0

\* variant of get_offset: an absent key reads as offset 0 (unwrap_or_default)
get_offset_default(m, key) ==
  [some |-> TRUE, val |-> IF key \in DOMAIN m THEN m[key] ELSE 0]

\* Db::get_offset
get_offset(m, key) ==
  IF key \in DOMAIN m THEN [some |-> TRUE, val |-> m[key]]
  ELSE [some |-> FALSE, val |-> 0]

\* variant of fetch_db: the seek of line 51 is missing, the read starts at 0
fetch_db_noseek(f, off) ==
  LET p == from_str_KeyVal(trim_end(read_line(f, 0)))
  IN [res |-> IF p.ok THEN "Ok" ELSE "Err", kv |-> p.kv]

\* Db::fetch_db: seek, read one line, trim, decode; a decode failure is
\* returned as an io::Error
fetch_db(f, off) ==
  LET buf == trim_end(read_line(f, off))
      p == from_str_KeyVal(buf)
  IN [res |-> IF p.ok THEN "Ok" ELSE "Err", kv |-> p.kv]

\* Db::get without I/O failures
get(m, f, key) ==
  LET o == get_offset(m, key) IN
  IF o.some THEN fetch_db(f, o.val)
  ELSE [res |-> "NotFound", kv |-> NoKeyVal]

\* variant of boot_insert: an entry for a key already present is dropped
boot_insert_first(m, key, off) ==
  IF key \in DOMAIN m THEN m ELSE insert(m, key, off)

\* Db::boot_fill_index, line 85: self.offset.insert(ko.key, ko.offset)
boot_insert(m, key, off) == insert(m, key, off)

\* the loop of Db::boot_fill_index over the lines ls, from line i on, into m;
\* ok is FALSE when serde_json::from_str(..).unwrap() panics
RECURSIVE boot_loop(_, _, _)
boot_loop(ls, i, m) ==
  IF i > Len(ls) THEN [ok |-> TRUE, offset |-> m]
  ELSE LET p == from_str_KeyOffset(trim_end(ls[i])) IN
       IF ~p.ok THEN [ok |-> FALSE, offset |-> m]
       ELSE boot_loop(ls, i + 1, boot_insert(m, p.ko.key, p.ko.offset))

\* Db::boot_fill_index on an index file with these bytes
boot_fill_index(idx) == boot_loop(lines(idx, 1), 1, EmptyMap)

\* the bytes Db::store_db writes for kv
store_db_bytes(kv) == to_string_KeyVal(kv) \o END

\* variant of store_db_advance: the line feed is not counted
store_db_advance_noend(kv) == Len(to_string_KeyVal(kv))

\* variant of store_db_advance: the bytes of the value are counted, not the
\* bytes written
store_db_advance_val(kv) == Len(kv.val)

\* Db::store_db, line 47: what last_offset advances by
store_db_advance(kv) == Len(store_db_bytes(kv))

\* variant of store_index_bytes: the entry carries offset 0, not the offset
\* handed to store_index
store_index_bytes_zero(key, off) == to_string_KeyOffset(KeyOffset(key, 0)) \o END

\* the bytes Db::store_index_stable writes for (key, off)
store_index_bytes(key, off) == to_string_KeyOffset(KeyOffset(key, off)) \o END

\* variant of open_file: the file is opened with truncate(true)
open_file_truncate(f) == <<>>

\* OpenOptions::new().read(true).write(true).create(true).open: the contents
\* of the file as the handle finds them; an absent file is created empty
open_file(f) == f

\* capacity of the buffer of BufReader::new
DEFAULT_BUF_SIZE == 8192

\* Db::fetch_db, lines 51-55: where the cursor of the data file is left by
\* the seek and by the BufReader filling its buffer once for the line
fetch_db_pos(f, off) ==
  IF off >= Len(f) THEN off
  ELSE IF off + DEFAULT_BUF_SIZE < Len(f) THEN off + DEFAULT_BUF_SIZE
  ELSE Len(f)

\* variant of store_db_seek: the seek of line 45 is missing, the write goes
\* where the cursor of the data file was left
store_db_seek_missing(pos, last) == pos

\* Db::store_db, line 45: the cursor after seek(SeekFrom::Start(last_offset))
store_db_seek(pos, last) == last

\* what a call returned: op, the outcome, the key it was about, the record
Returned(op, res, key, kv) == [op |-> op, res |-> res, key |-> key, kv |-> kv]

\* no call has returned: none was made, one is running, or the process ended
NoResult == Returned("none", "None", <<>>, NoKeyVal)

\* the process is gone: its memory is gone with it
ProcessGone ==
  /\ offset' = EmptyMap
  /\ last_offset' = InitialLastOffset
  /\ file_pos' = 0
  /\ idx_pos' = 0
  /\ pc' = "idle"
  /\ cur' = NoKeyVal

Init ==
  /\ file = <<>>
  /\ index_file = <<>>
  /\ file_pos = 0
  /\ idx_pos = 0
  /\ offset = EmptyMap
  /\ last_offset = InitialLastOffset
  /\ proc = "closed"
  /\ pc = "idle"
  /\ cur = NoKeyVal
  /\ result = NoResult
  /\ written = EmptyMap
  /\ put_keys = {}
  /\ sess_keys = {}
  /\ cut_keys = {}
  /\ clean = TRUE
  /\ sessions = 0
  /\ nputs = 0

\* open(path).  fault "open": OpenOptions::open fails and `?` returns the
\* error; fault "seek": the seek of line 78 fails and its unwrap panics.
\* The seek of line 78 puts the cursor of the data file at 0.  The BufReader
\* reads the index file to its end, which leaves the cursor of the index file
\* handle there.
Open(fault) ==
  /\ proc # "open"
  /\ sessions < MaxSessions
  /\ sess_keys' = {}
  /\ file' = open_file(file)
  /\ index_file' = open_file(index_file)
  /\ UNCHANGED <<written, put_keys, cut_keys, clean, nputs>>
  /\ LET b == boot_fill_index(open_file(index_file)) IN
     IF fault = "open" THEN
       /\ proc' = "closed"
       /\ result' = Returned("open", "Err", <<>>, NoKeyVal)
       /\ sessions' = sessions
       /\ ProcessGone
     ELSE IF fault = "seek" \/ ~b.ok THEN
       /\ proc' = "panicked"
       /\ result' = Returned("open", "Panic", <<>>, NoKeyVal)
       /\ sessions' = sessions
       /\ ProcessGone
     ELSE
       /\ proc' = "open"
       /\ result' = Returned("open", "Ok", <<>>, NoKeyVal)
       /\ sessions' = sessions + 1
       /\ offset' = b.offset
       /\ last_offset' = InitialLastOffset
       /\ file_pos' = 0
       /\ idx_pos' = Len(open_file(index_file))
       /\ pc' = "idle"
       /\ cur' = NoKeyVal

\* variant of PutStoreIndexStable: lines 36 and 39 of put are swapped, the
\* record is in the data file before the index entry is written
PutStoreIndexStable_record_first(key, val, fail) ==
  /\ proc = "open" /\ pc = "idle"
  /\ nputs < MaxPuts
  /\ UNCHANGED <<written, sess_keys, cut_keys, clean, sessions>>
  /\ IF fail THEN
       /\ proc' = "panicked"
       /\ result' = Returned("put", "Panic", key, NoKeyVal)
       /\ ProcessGone
       /\ UNCHANGED <<file, index_file, put_keys, nputs>>
     ELSE
       /\ file' = WriteAt(file, last_offset, store_db_bytes(KeyVal(key, val)))
       /\ index_file' = WriteAt(index_file, idx_pos, store_index_bytes(key, last_offset))
       /\ idx_pos' = idx_pos + Len(store_index_bytes(key, last_offset))
       /\ pc' = "insert"
       /\ cur' = KeyVal(key, val)
       /\ result' = NoResult
       /\ nputs' = nputs + 1
       /\ put_keys' = put_keys \cup {key}
       /\ UNCHANGED <<file_pos, offset, last_offset, proc>>

\* put, lines 33-36 with store_index_stable (109-124): the index entry is
\* written at the cursor of the index file.  When the write fails,
\* store_index returns the error and the unwrap of line 36 panics.
PutStoreIndexStable(key, val, fail) ==
  /\ proc = "open" /\ pc = "idle"
  /\ nputs < MaxPuts
  /\ UNCHANGED <<file, written, sess_keys, cut_keys, clean, sessions>>
  /\ IF fail THEN
       /\ proc' = "panicked"
       /\ result' = Returned("put", "Panic", key, NoKeyVal)
       /\ ProcessGone
       /\ UNCHANGED <<index_file, put_keys, nputs>>
     ELSE
       /\ index_file' = WriteAt(index_file, idx_pos, store_index_bytes(key, last_offset))
       /\ idx_pos' = idx_pos + Len(store_index_bytes(key, last_offset))
       /\ pc' = "insert"
       /\ cur' = KeyVal(key, val)
       /\ result' = NoResult
       /\ nputs' = nputs + 1
       /\ put_keys' = put_keys \cup {key}
       /\ UNCHANGED <<file_pos, offset, last_offset, proc>>

\* store_index, line 104: the HashMap takes the offset just written
PutInsert ==
  /\ proc = "open" /\ pc = "insert"
  /\ offset' = insert(offset, cur.key, last_offset)
  /\ pc' = "store_db"
  /\ UNCHANGED <<file, index_file, file_pos, idx_pos, last_offset, proc, cur,
                 result, written, put_keys, cut_keys, sess_keys, clean,
                 sessions, nputs>>

\* put, line 39 with store_db (42-48): seek to last_offset, write the line,
\* advance last_offset.  A failing seek or write panics in its unwrap.
PutStoreDb(fault) ==
  /\ proc = "open" /\ pc = "store_db"
  /\ UNCHANGED <<index_file, put_keys, sessions, nputs>>
  /\ IF fault # "none" THEN
       /\ proc' = "panicked"
       /\ result' = Returned("put", "Panic", cur.key, NoKeyVal)
       /\ cut_keys' = cut_keys \cup {cur.key}
       /\ clean' = FALSE
       /\ ProcessGone
       /\ UNCHANGED <<file, written, sess_keys>>
     ELSE
       /\ file' = WriteAt(file, store_db_seek(file_pos, last_offset),
                          store_db_bytes(cur))
       /\ file_pos' = store_db_seek(file_pos, last_offset) + Len(store_db_bytes(cur))
       /\ last_offset' = last_offset + store_db_advance(cur)
       /\ pc' = "idle"
       /\ cur' = NoKeyVal
       /\ result' = Returned("put", "Ok", cur.key, cur)
       /\ written' = insert(written, cur.key, cur.val)
       /\ sess_keys' = sess_keys \cup {cur.key}
       /\ cut_keys' = cut_keys \ {cur.key}
       /\ UNCHANGED <<idx_pos, offset, proc, clean>>

\* where a write of these bytes may be cut short: half way, which leaves a
\* malformed line, and before the line feed, which leaves a whole entry that
\* the next write continues
TornCuts(bytes) == {Len(bytes) \div 2, Len(bytes) - 1}

\* put whose process dies inside the write of line 121, after some of the
\* bytes of the index entry reached the file
PutTornIndex(key, val) ==
  /\ proc = "open" /\ pc = "idle"
  /\ nputs < MaxPuts
  /\ nputs' = nputs + 1
  /\ put_keys' = put_keys \cup {key}
  /\ \E n \in TornCuts(store_index_bytes(key, last_offset)) :
       index_file' = WriteAt(index_file, idx_pos,
                             SubSeq(store_index_bytes(key, last_offset), 1, n))
  /\ proc' = "closed"
  /\ result' = NoResult
  /\ cut_keys' = cut_keys \ {key}
  /\ clean' = FALSE
  /\ ProcessGone
  /\ UNCHANGED <<file, written, sess_keys, sessions>>

\* get(key).  fault "seek": the seek of fetch_db fails; fault "read": the
\* seek is done and the read fails; `?` returns the error either way.
Get(key, fault) ==
  /\ proc = "open" /\ pc = "idle"
  /\ LET o == get_offset(offset, key)
         r == get(offset, file, key)
     IN IF ~o.some THEN
          /\ result' = Returned("get", r.res, key, r.kv)
          /\ file_pos' = file_pos
        ELSE IF fault = "seek" THEN
          /\ result' = Returned("get", "Err", key, NoKeyVal)
          /\ file_pos' = file_pos
        ELSE IF fault = "read" THEN
          /\ result' = Returned("get", "Err", key, NoKeyVal)
          /\ file_pos' = o.val
        ELSE
          /\ result' = Returned("get", r.res, key, r.kv)
          /\ file_pos' = fetch_db_pos(file, o.val)
  /\ UNCHANGED <<file, index_file, idx_pos, offset, last_offset, proc, pc, cur,
                 written, put_keys, cut_keys, sess_keys, clean, sessions, nputs>>

\* the process ends: between calls, or in the middle of a put
Terminate ==
  /\ proc = "open"
  /\ proc' = "closed"
  /\ clean' = (clean /\ pc = "idle")
  /\ cut_keys' = IF pc = "idle" THEN cut_keys ELSE cut_keys \cup {cur.key}
  /\ result' = NoResult
  /\ ProcessGone
  /\ UNCHANGED <<file, index_file, written, put_keys, sess_keys,
                 sessions, nputs>>

Next ==
  \/ \E fault \in {"none", "open", "seek"} : Open(fault)
  \/ \E key \in Keys, val \in Vals, fail \in BOOLEAN :
       PutStoreIndexStable(key, val, fail)
  \/ PutInsert
  \/ \E fault \in {"none", "seek", "write"} : PutStoreDb(fault)
  \/ \E key \in Keys, val \in Vals : PutTornIndex(key, val)
  \/ \E key \in Keys, fault \in {"none", "seek", "read"} : Get(key, fault)
  \/ Terminate

Spec == Init /\ [][Next]_vars

\* ------------------------------------------------------------- properties
\* a Db exists and no call is running on it
Idle == proc = "open" /\ pc = "idle"

\* get(key) returns the record (key, val)
Gets(key, val) ==
  get(offset, file, key) = [res |-> "Ok", kv |-> KeyVal(key, val)]

\* C1: round trip.  In every state in which put(k, v) has just returned, on a
\* fresh store or on one reopened over existing files, get(k) succeeds and
\* the value of the record it returns is v.
C1_RoundTrip ==
  (Idle /\ result.op = "put" /\ result.res = "Ok") =>
    LET r == get(offset, file, result.key) IN
    r.res = "Ok" /\ r.kv.val = result.kv.val

\* put has just returned on a reopened store, having written over bytes of an
\* earlier session, with a value holding the zero byte and a non-text byte
C1_Witness ==
  /\ Idle /\ result.op = "put" /\ result.res = "Ok"
  /\ sessions >= 2
  /\ Len(file) > last_offset
  /\ result.kv.val = <<0, 255>>

\* C2: last write wins inside a session.  Between calls, for every key put in
\* the current session, get returns the value of the most recent put under
\* that key.
C2_LastWriteWins ==
  Idle => \A k \in sess_keys : Gets(k, written[k])

\* the first record of the session is an older put, with another value, of a
\* key put again since; the other key was put in between
C2_Witness ==
  /\ Idle /\ sess_keys = Keys
  /\ LET first == fetch_db(file, 0) IN
       /\ first.res = "Ok"
       /\ first.kv.key \in sess_keys
       /\ first.kv.val # written[first.kv.key]
       /\ offset[first.kv.key] > 0

\* C3: durability across restart.  When the first session on a fresh path
\* made puts and ended between calls, the second store opened on the path
\* returns, before any put of its own, the last value put under every key.
C3_DurableAcrossRestart ==
  (Idle /\ sessions = 2 /\ clean /\ sess_keys = {}) =>
    \A k \in DOMAIN written : Gets(k, written[k])

\* the second store, no put made yet, after a first session of three puts
\* over both keys
C3_Witness ==
  /\ Idle /\ sessions = 2 /\ clean /\ sess_keys = {}
  /\ DOMAIN written = Keys
  /\ nputs = 3

\* C4: records of earlier sessions survive later writes.  After a put on a
\* reopened store, get of every key written in an earlier session and not in
\* this one still returns the last value put under it.
C4_EarlierRecordsSurvive ==
  (Idle /\ clean /\ result.op = "put" /\ result.res = "Ok") =>
    \A k \in DOMAIN written \ sess_keys : Gets(k, written[k])

\* C5: unknown key.  A get of a key that was never passed to put, in this or
\* an earlier session, returns NotFound and leaves the process running.
C5_UnknownKey ==
  (result.op = "get" /\ result.key \notin put_keys) =>
    (result.res = "NotFound" /\ proc = "open")

\* a get of a never-put key on a reopened store that holds the other key
C5_Witness ==
  /\ result.op = "get" /\ result.key \notin put_keys
  /\ sessions >= 2
  /\ DOMAIN offset # {}

\* C6: put propagates failures.  Whatever fails inside put, put returns (a
\* success or an error) and the process keeps running.
C6_PutReturnsErrors ==
  result.op = "put" => (result.res \in {"Ok", "Err"} /\ proc = "open")

\* some line of the index file is not a well-formed KeyOffset
Malformed(idx) ==
  \E i \in 1..Len(lines(idx, 1)) : ~from_str_KeyOffset(lines(idx, 1)[i]).ok

\* C7: a corrupt index log is surfaced by open.  When a line of the index
\* file is malformed, open returns an error: it does not abort the process
\* and does not return a store.
C7_CorruptIndexSurfaced ==
  (result.op = "open" /\ Malformed(index_file)) => result.res = "Err"

\* C8: crash between the two writes of a put.  When the latest put of a key
\* stopped after its index entry was written and before its record was, a
\* get of the key on the reopened store, before any put is made on it,
\* returns an error, never a record.
C8_CrashBetweenWrites ==
  (result.op = "get" /\ result.key \in cut_keys /\ sess_keys = {}) =>
    result.res = "Err"

\* C9: append position equals file length.  Between calls, also right after
\* open, last_offset is the length of the data file.
C9_AppendAtEnd ==
  Idle => last_offset = Len(file)

\* f is a prefix of g
IsPrefix(f, g) == Len(f) <= Len(g) /\ SubSeq(g, 1, Len(f)) = f

\* C10: the data log is append-only.  Every step of every operation leaves
\* the old contents of the data file as a prefix of the new contents.
C10_AppendOnly ==
  [][IsPrefix(file, file')]_vars

\* the data file holds at off a whole record: a line that ends in a line
\* feed and decodes as a KeyVal
CompleteRecordAt(f, off) ==
  LET l == read_line(f, off) IN
  /\ l # <<>>
  /\ l[Len(l)] = "\n"
  /\ from_str_KeyVal(trim_end(l)).ok

\* C11: the index addresses a real record.  Between calls, when no put of
\* the history was cut short by a crash, every key of the HashMap maps to an
\* offset at which the data file holds a complete, newline-terminated,
\* decodable record.
C11_IndexAddressesRecord ==
  (Idle /\ clean) => \A k \in DOMAIN offset : CompleteRecordAt(file, offset[k])

\* the index file holds, right before the cursor pos of its handle, the
\* whole entry of (key, off): the last write to it was that entry
IndexEntryWritten(idx, pos, key, off) ==
  LET b == to_string_KeyOffset(KeyOffset(key, off)) \o END IN
  /\ pos >= Len(b)
  /\ SubSeq(idx, pos - Len(b) + 1, pos) = b

\* the order in which a running put goes through its steps
PutOrder == {<<"idle", "insert">>, <<"insert", "store_db">>, <<"store_db", "idle">>}

\* C12: write ordering inside put.  A put goes through three steps in this
\* order: the index entry (k, last_offset) is written, then the HashMap maps
\* k to last_offset, then the record is written to the data file at
\* last_offset.  Every step that changes the index file leaves the HashMap
\* and the data file alone; every step of a running store that changes the
\* HashMap finds the index entry written and leaves both files alone; every
\* step that changes the data file finds the index entry written and the
\* HashMap set, and writes the record at last_offset.
C12_WriteOrdering ==
  [][/\ (proc = "open" /\ proc' = "open" /\ pc' # pc) => <<pc, pc'>> \in PutOrder
     /\ index_file' # index_file =>
          /\ pc = "idle" /\ file' = file
          /\ proc' = "open" =>
               /\ pc' = "insert" /\ offset' = offset
               /\ IndexEntryWritten(index_file', idx_pos', cur'.key, last_offset)
     /\ (proc = "open" /\ proc' = "open" /\ offset' # offset) =>
          /\ pc = "insert"
          /\ IndexEntryWritten(index_file, idx_pos, cur.key, last_offset)
          /\ offset' = insert(offset, cur.key, last_offset)
          /\ file' = file /\ index_file' = index_file
     /\ file' # file =>
          /\ pc = "store_db"
          /\ IndexEntryWritten(index_file, idx_pos, cur.key, last_offset)
          /\ get_offset(offset, cur.key) = [some |-> TRUE, val |-> last_offset]
          /\ index_file' = index_file /\ offset' = offset
          /\ read_line(file', last_offset) = to_string_KeyVal(cur) \o END
    ]_vars

\* a put of a session that wrote before is between its second and its third
\* step: the index entry is written, the HashMap is set, the data file holds
\* nothing yet at last_offset
C12_Witness ==
  /\ proc = "open" /\ pc = "store_db"
  /\ last_offset > 0
  /\ IndexEntryWritten(index_file, idx_pos, cur.key, last_offset)
  /\ offset[cur.key] = last_offset
  /\ read_line(file, last_offset) = <<>>

\* C13: replay reproduces the live index.  Between calls, replaying the index
\* file in file order, each entry an unconditional overwrite, gives the
\* HashMap the store holds; when no put of the history was cut short by a
\* crash the replay reads every line.  So the HashMap a store holds when its
\* process ends between calls is the one the next open builds.
C13_ReplayReproducesIndex ==
  Idle =>
    LET b == boot_fill_index(index_file) IN
    /\ clean => b.ok
    /\ b.ok => b.offset = offset

\* a reopened store after puts of its own, the index file holding more
\* entries than there are keys: some entry was overwritten in the replay
C13_Witness ==
  /\ Idle /\ clean
  /\ sessions >= 2
  /\ sess_keys # {}
  /\ Len(lines(index_file, 1)) > Cardinality(DOMAIN offset)
  /\ Cardinality(DOMAIN offset) = 2

\* the offsets of the entries of the index file, in file order
RECURSIVE EntryOffsets(_, _)
EntryOffsets(ls, i) ==
  IF i > Len(ls) THEN <<>>
  ELSE <<from_str_KeyOffset(ls[i]).ko.offset>> \o EntryOffsets(ls, i + 1)

\* C14: offsets are never reused.  Over the whole history of a path, every
\* put is given an offset strictly larger than the offset of every earlier
\* put: when no put of the history was cut short by a crash, so that every
\* entry of the index file belongs to a put that wrote its record, the
\* offsets of the entries increase strictly in file order.
C14_OffsetsNeverReused ==
  (clean /\ ~Malformed(index_file)) =>
    LET offs == EntryOffsets(lines(index_file, 1), 1) IN
    \A i, j \in 1..Len(offs) : i < j => offs[i] < offs[j]

\* C15: monotonic offsets within a session.  While a store is open,
\* last_offset, the offset each put uses, never decreases; it changes only
\* when a put writes its record, and then it advances by exactly the length
\* of the line now in the data file at the old last_offset: the encoded
\* record and its line feed.
C15_MonotonicInSession ==
  [][(proc = "open" /\ proc' = "open") =>
       /\ last_offset' >= last_offset
       /\ last_offset' # last_offset => (pc = "store_db" /\ pc' = "idle")
       /\ (pc = "store_db" /\ pc' = "idle") =>
            LET l == read_line(file', last_offset) IN
            /\ l = to_string_KeyVal(cur) \o END
            /\ last_offset' = last_offset + Len(l)
    ]_vars

\* the second put of a reopened store has returned: it used a larger offset
\* than the first, and both keys were put
C15_Witness ==
  /\ Idle /\ result.op = "put" /\ result.res = "Ok"
  /\ sessions >= 2
  /\ sess_keys = Keys
  /\ \A k \in Keys : offset[k] < last_offset
  /\ offset[result.key] > 0

\* C16: recovery does not touch the logs.  Every open, whether it returns a
\* store, returns an error or panics, leaves the bytes of the data file and
\* of the index file as they were; the store it returns holds the replay of
\* the index file as it was, which is the empty HashMap when both files are
\* empty or were absent.
C16_OpenLeavesLogs ==
  [][(proc # "open" /\ result'.op = "open") =>
       /\ file' = file
       /\ index_file' = index_file
       /\ result'.res = "Ok" =>
            /\ offset' = boot_fill_index(index_file).offset
            /\ (file = <<>> /\ index_file = <<>>) => offset' = EmptyMap
    ]_vars

\* open has returned a store over files that hold records and entries of
\* both keys
C16_Witness ==
  /\ proc = "open" /\ result.op = "open" /\ result.res = "Ok"
  /\ file # <<>> /\ index_file # <<>>
  /\ DOMAIN offset = Keys

\* C18: get returns the record of the requested key.  When no put of the
\* history was cut short by a crash, every get that succeeds returns a record
\* whose key is the key asked for.
C18_GetReturnsRequestedKey ==
  (clean /\ result.op = "get" /\ result.res = "Ok") =>
    result.kv.key = result.key

\* C19: get is read-only.  Every get, whether it returns a record, NotFound
\* or an error, leaves the HashMap, the bytes of the data file, the bytes of
\* the index file, last_offset and the append position of the index file as
\* they were; it moves only the cursor of the data file, and the put that
\* follows writes its record at last_offset, wherever that cursor is.
C19_GetReadOnly ==
  [][/\ (Idle /\ result'.op = "get") =>
          UNCHANGED <<offset, file, index_file, last_offset, idx_pos, proc, pc>>
     /\ (proc = "open" /\ pc = "store_db" /\ proc' = "open") =>
          file' = WriteAt(file, last_offset, to_string_KeyVal(cur) \o END)
    ]_vars

\* a put is about to write its record after a get of the same session left
\* the cursor of the data file past last_offset, on a reopened store
C19_Witness ==
  /\ proc = "open" /\ pc = "store_db"
  /\ sessions >= 2
  /\ file_pos > last_offset

====
